---- MODULE Spec2Model ----
(***************************************************************************)
(* A model of cpp/include/raft/sparse/cusparse_wrappers.h: the cuSPARSE    *)
(* error translation (cusparse_error_to_string, CUSPARSE_TRY /             *)
(* CUSPARSE_CHECK) and the typed wrappers cusparsegthr, cusparsecoo2csr,   *)
(* cusparsecoosort_bufferSizeExt, cusparsecoosortByRow and cusparsegemmi.  *)
(*                                                                         *)
(* The vendor routines (cusparseSetStream, cusparseDgthr, ...) are opaque: *)
(* each returns an arbitrary status and writes arbitrary contents to the   *)
(* output buffers it is handed.  What is modelled is what the header does  *)
(* around them.                                                            *)
(***************************************************************************)
EXTENDS Integers, FiniteSets, Sequences, TLC

VARIABLES
  build,         \* preprocessor configuration the header is compiled under
  serialized,    \* do the callers wrap each call in one external critical section
  handleStream,  \* the stream the shared cusparseHandle_t is bound to
  pc,            \* per caller: "idle", "bind", "native", "done"
  op,            \* per caller: the wrapper being executed
  stream,        \* per caller: the cudaStream_t argument of the call
  bound,         \* per caller: cusparseSetStream evaluations of this call
  issued,        \* per caller: native routine evaluations of this call
  chk,           \* per caller: CUSPARSE_TRY expansions executed in this call
  exc,           \* per caller: the raft::cusparse_error thrown, if any
  ret,           \* per caller: the value returned, if any
  buf            \* per caller: contents of the output buffers passed in

vars == <<build, serialized, handleStream, pc, op, stream, bound, issued,
          chk, exc, ret, buf>>

----------------------------------------------------------------------------
(* Bounds of the model *)

\* status values range over -1 .. MaxStatus
MaxStatus == 9
\* buffer contents range over 0 .. MaxBuf; 0 is what the caller passed in
MaxBuf == 1
\* byte counts written by cusparseXcoosort_bufferSizeExt range over 0 .. MaxSize
MaxSize == 1

----------------------------------------------------------------------------
(* cusparseStatus_t: the enumerators the switch names *)

CUSPARSE_STATUS_SUCCESS == 0
CUSPARSE_STATUS_NOT_INITIALIZED == 1
CUSPARSE_STATUS_ALLOC_FAILED == 2
CUSPARSE_STATUS_INVALID_VALUE == 3
CUSPARSE_STATUS_ARCH_MISMATCH == 4
CUSPARSE_STATUS_EXECUTION_FAILED == 6
CUSPARSE_STATUS_INTERNAL_ERROR == 7
CUSPARSE_STATUS_MATRIX_TYPE_NOT_SUPPORTED == 8

StatusValues == (0 - 1)..MaxStatus
BufVals == 0..MaxBuf
Sizes == 0..MaxSize

Builds == {"legacy", "cudart10100"}
Threads == {"t1", "t2"}
SingleCaller == {"t1"}
Streams == {"s1", "s2"}
DefaultStream == "default"
NoStream == "none"

\* statuses the vendor routines return when two callers share the handle
SharedStatuses == {CUSPARSE_STATUS_SUCCESS, CUSPARSE_STATUS_INTERNAL_ERROR}

----------------------------------------------------------------------------
(* Error translation layer *)

\* what the CUDART_VERSION >= 10100 branch yields: its body names `status',
\* which is not declared in the function (the parameter is `err')
IllFormed == "<ill-formed: 'status' was not declared in this scope>"

\* #if defined(CUDART_VERSION) && CUDART_VERSION >= 10100
UsesGetErrorString(b) == b = "cudart10100"

\* the header is a translation unit only where every inline function in it is
\* well formed
HeaderCompiles(b) == ~UsesGetErrorString(b)

\* faulty variant: two labels exchanged, the later cases dropped
cusparse_error_to_string_swapped(b, err) ==
  IF UsesGetErrorString(b) THEN IllFormed
  ELSE CASE err = CUSPARSE_STATUS_SUCCESS -> "CUSPARSE_STATUS_SUCCESS"
         [] err = CUSPARSE_STATUS_NOT_INITIALIZED -> "CUSPARSE_STATUS_ALLOC_FAILED"
         [] err = CUSPARSE_STATUS_ALLOC_FAILED -> "CUSPARSE_STATUS_NOT_INITIALIZED"
         [] OTHER -> "CUSPARSE_STATUS_UNKNOWN"

cusparse_error_to_string(b, err) ==
  IF UsesGetErrorString(b) THEN IllFormed
  ELSE CASE err = CUSPARSE_STATUS_SUCCESS -> "CUSPARSE_STATUS_SUCCESS"
         [] err = CUSPARSE_STATUS_NOT_INITIALIZED -> "CUSPARSE_STATUS_NOT_INITIALIZED"
         [] err = CUSPARSE_STATUS_ALLOC_FAILED -> "CUSPARSE_STATUS_ALLOC_FAILED"
         [] err = CUSPARSE_STATUS_INVALID_VALUE -> "CUSPARSE_STATUS_INVALID_VALUE"
         [] err = CUSPARSE_STATUS_ARCH_MISMATCH -> "CUSPARSE_STATUS_ARCH_MISMATCH"
         [] err = CUSPARSE_STATUS_EXECUTION_FAILED -> "CUSPARSE_STATUS_EXECUTION_FAILED"
         [] err = CUSPARSE_STATUS_INTERNAL_ERROR -> "CUSPARSE_STATUS_INTERNAL_ERROR"
         [] err = CUSPARSE_STATUS_MATRIX_TYPE_NOT_SUPPORTED ->
              "CUSPARSE_STATUS_MATRIX_TYPE_NOT_SUPPORTED"
         [] OTHER -> "CUSPARSE_STATUS_UNKNOWN"

NoExc == [raised |-> FALSE, what |-> "", call |-> "", code |-> 0, label |-> ""]

\* SET_ERROR_MSG (raft/error.hpp) with the format "call='%s', Reason=%d:%s":
\* the message holds the prefix and the three format arguments
SET_ERROR_MSG(prefix, call, status, label) ==
  [what |-> prefix, call |-> call, code |-> status, label |-> label]

\* throw raft::cusparse_error(msg) with the msg the macro builds
cusparse_error(b, call, status) ==
  LET msg == SET_ERROR_MSG("cuSparse error encountered at: ", call, status,
                           cusparse_error_to_string(b, status))
  IN [raised |-> TRUE, what |-> msg.what, call |-> msg.call,
      code |-> msg.code, label |-> msg.label]

\* Faulty variants of the macro: a test for positive statuses only, a macro
\* that evaluates its argument twice, and a macro that never throws (as the
\* disabled CUSPARSE_CHECK_NO_THROW would).
CUSPARSE_TRY_positive(b, call, status) ==
  [evals  |-> 1,
   raised |-> status > CUSPARSE_STATUS_SUCCESS,
   error  |-> IF status > CUSPARSE_STATUS_SUCCESS
                THEN cusparse_error(b, call, status) ELSE NoExc]

CUSPARSE_TRY_twice(b, call, status) ==
  [evals  |-> 2,
   raised |-> CUSPARSE_STATUS_SUCCESS # status,
   error  |-> IF CUSPARSE_STATUS_SUCCESS # status
                THEN cusparse_error(b, call, status) ELSE NoExc]

CUSPARSE_TRY_no_throw(b, call, status) ==
  [evals |-> 1, raised |-> FALSE, error |-> NoExc]

\* CUSPARSE_TRY(call), also spelled CUSPARSE_CHECK(call): `status' is the value
\* the single evaluation of (call) produced, `call' is #call.
CUSPARSE_TRY(b, call, status) ==
  [evals  |-> 1,
   raised |-> CUSPARSE_STATUS_SUCCESS # status,
   error  |-> IF CUSPARSE_STATUS_SUCCESS # status
                THEN cusparse_error(b, call, status) ELSE NoExc]

----------------------------------------------------------------------------
(* Typed dispatch layer *)

Ops == {"gthr_double", "gthr_float", "coo2csr", "coosort_bufferSizeExt",
        "coosortByRow", "gemmi_float", "gemmi_double"}
NoOp == "none"

\* faulty variant: cusparsecoo2csr without its cusparseSetStream
BindsStream_coo2csr_unbound(o) ==
  o \in {"gthr_double", "gthr_float", "coosort_bufferSizeExt", "coosortByRow"}

\* the wrappers that take a cudaStream_t and start with cusparseSetStream
BindsStream(o) ==
  o \in {"gthr_double", "gthr_float", "coo2csr", "coosort_bufferSizeExt",
         "coosortByRow"}

\* faulty variants: the native call of cusparsegthr, or of cusparsegemmi,
\* wrapped in CUSPARSE_CHECK
ChecksNative_gthr(o) ==
  o \in {"coo2csr", "coosort_bufferSizeExt", "coosortByRow",
         "gthr_double", "gthr_float"}

ChecksNative_all(o) ==
  o \in {"coo2csr", "coosort_bufferSizeExt", "coosortByRow",
         "gemmi_float", "gemmi_double"}

\* the wrappers whose native call is wrapped in CUSPARSE_CHECK
ChecksNative(o) == o \in {"coo2csr", "coosort_bufferSizeExt", "coosortByRow"}

\* the wrappers whose native routine is handed a non-const caller buffer
WritesBuffers(o) == o # "coosort_bufferSizeExt"

SetStreamText == "cusparseSetStream(handle, stream)"

\* #call of the native call of each wrapper
NativeText(o) ==
  CASE o = "gthr_double" ->
         "cusparseDgthr(handle, nnz, vals, vals_sorted, d_P, CUSPARSE_INDEX_BASE_ZERO)"
    [] o = "gthr_float" ->
         "cusparseSgthr(handle, nnz, vals, vals_sorted, d_P, CUSPARSE_INDEX_BASE_ZERO)"
    [] o = "coo2csr" ->
         "cusparseXcoo2csr(handle, cooRowInd, nnz, m, csrRowPtr, CUSPARSE_INDEX_BASE_ZERO)"
    [] o = "coosort_bufferSizeExt" ->
         "cusparseXcoosort_bufferSizeExt(handle, m, n, nnz, cooRows, cooCols, &val)"
    [] o = "coosortByRow" ->
         "cusparseXcoosortByRow(handle, m, n, nnz, cooRows, cooCols, P, pBuffer)"
    [] o = "gemmi_float" ->
         "cusparseSgemmi(handle, m, n, k, nnz, alpha, A, lda, cscValB, cscColPtrB, cscRowIndB, beta, C, ldc)"
    [] o = "gemmi_double" ->
         "cusparseDgemmi(handle, m, n, k, nnz, alpha, A, lda, cscValB, cscColPtrB, cscRowIndB, beta, C, ldc)"

\* faulty variant: the bind leaves the handle as it was
cusparseSetStream_skipped(h, s, st) == h

\* the effect of cusparseSetStream(handle, stream) on the handle's binding,
\* given the status st it returns
cusparseSetStream(h, s, st) == IF st = CUSPARSE_STATUS_SUCCESS THEN s ELSE h

NoCall == [n |-> 0, status |-> 0, on |-> NoStream]
NoChk == [n |-> 0, call |-> "", status |-> 0]
NoRet == [kind |-> "none", val |-> 0, label |-> ""]

\* the caller's side of a shared handle: with external serialization a call is
\* entered only while no other call is between its entry and its exit
CallerMayEnter(t) ==
  serialized => \A u \in Threads \ {t} : pc[u] \notin {"bind", "native"}

Init ==
  /\ build \in Builds
  /\ serialized \in BOOLEAN
  /\ handleStream = DefaultStream
  /\ pc = [t \in Threads |-> "idle"]
  /\ op = [t \in Threads |-> NoOp]
  /\ stream = [t \in Threads |-> NoStream]
  /\ bound = [t \in Threads |-> NoCall]
  /\ issued = [t \in Threads |-> NoCall]
  /\ chk = [t \in Threads |-> NoChk]
  /\ exc = [t \in Threads |-> NoExc]
  /\ ret = [t \in Threads |-> NoRet]
  /\ buf = [t \in Threads |-> 0]

\* A caller enters wrapper o with stream argument s (cusparsegemmi has none).
Call(t, o, s) ==
  /\ HeaderCompiles(build)
  /\ pc[t] = "idle"
  /\ CallerMayEnter(t)
  /\ IF BindsStream(o) THEN s \in Streams ELSE s = NoStream
  /\ pc' = [pc EXCEPT ![t] = IF BindsStream(o) THEN "bind" ELSE "native"]
  /\ op' = [op EXCEPT ![t] = o]
  /\ stream' = [stream EXCEPT ![t] = s]
  /\ UNCHANGED <<build, serialized, handleStream, bound, issued, chk, exc, ret, buf>>

\* CUSPARSE_CHECK(cusparseSetStream(handle, stream)); st is the status returned.
SetStream(t, st) ==
  /\ pc[t] = "bind"
  /\ LET c == CUSPARSE_TRY(build, SetStreamText, st) IN
       /\ handleStream' = cusparseSetStream(handleStream, stream[t], st)
       /\ bound' = [bound EXCEPT ![t] =
                      [n |-> @.n + c.evals, status |-> st, on |-> stream[t]]]
       /\ chk' = [chk EXCEPT ![t] =
                    [n |-> @.n + 1, call |-> SetStreamText, status |-> st]]
       /\ exc' = [exc EXCEPT ![t] = c.error]
       /\ pc' = [pc EXCEPT ![t] = IF c.raised THEN "done" ELSE "native"]
  /\ UNCHANGED <<build, serialized, op, stream, issued, ret, buf>>

\* The native call of the wrapper and what follows it.  st is the status the
\* routine returns, w what it leaves in the caller's output buffers, sz what it
\* stores through &val.
Native(t, st, w, sz) ==
  /\ pc[t] = "native"
  /\ LET o == op[t]
         c == IF ChecksNative(o) THEN CUSPARSE_TRY(build, NativeText(o), st)
              ELSE [evals |-> 1, raised |-> FALSE, error |-> NoExc]
     IN
       /\ issued' = [issued EXCEPT ![t] =
                       [n |-> @.n + c.evals, status |-> st, on |-> handleStream]]
       /\ chk' = IF ChecksNative(o)
                   THEN [chk EXCEPT ![t] =
                           [n |-> @.n + 1, call |-> NativeText(o), status |-> st]]
                   ELSE chk
       /\ buf' = [buf EXCEPT ![t] = IF WritesBuffers(o) THEN w ELSE @]
       /\ exc' = [exc EXCEPT ![t] = c.error]
       /\ ret' = [ret EXCEPT ![t] =
                    IF c.raised THEN NoRet
                    ELSE IF ~ChecksNative(o)
                      THEN [kind |-> "status", val |-> st, label |-> ""]
                    ELSE IF o = "coosort_bufferSizeExt"
                      THEN [kind |-> "size", val |-> sz, label |-> ""]
                    ELSE [kind |-> "void", val |-> 0, label |-> ""]]
  /\ pc' = [pc EXCEPT ![t] = "done"]
  /\ UNCHANGED <<build, serialized, handleStream, op, stream, bound>>

\* A direct call of raft::sparse::detail::cusparse_error_to_string(err).
Decode(t, err) ==
  /\ HeaderCompiles(build)
  /\ pc[t] = "idle"
  /\ pc' = [pc EXCEPT ![t] = "done"]
  /\ op' = [op EXCEPT ![t] = "decode"]
  /\ ret' = [ret EXCEPT ![t] =
               [kind |-> "label", val |-> err,
                label |-> cusparse_error_to_string(build, err)]]
  /\ UNCHANGED <<build, serialized, handleStream, stream, bound, issued, chk, exc, buf>>

\* The caller has taken the result (or caught the exception) and prepares the
\* buffers of its next call.
Return(t) ==
  /\ pc[t] = "done"
  /\ pc' = [pc EXCEPT ![t] = "idle"]
  /\ op' = [op EXCEPT ![t] = NoOp]
  /\ stream' = [stream EXCEPT ![t] = NoStream]
  /\ bound' = [bound EXCEPT ![t] = NoCall]
  /\ issued' = [issued EXCEPT ![t] = NoCall]
  /\ chk' = [chk EXCEPT ![t] = NoChk]
  /\ exc' = [exc EXCEPT ![t] = NoExc]
  /\ ret' = [ret EXCEPT ![t] = NoRet]
  /\ buf' = [buf EXCEPT ![t] = 0]
  /\ UNCHANGED <<build, serialized, handleStream>>

\* one caller, every status value
Next ==
  \E t \in SingleCaller :
    \/ \E o \in Ops, s \in Streams \cup {NoStream} : Call(t, o, s)
    \/ \E st \in StatusValues : SetStream(t, st)
    \/ \E st \in StatusValues, w \in BufVals, sz \in Sizes : Native(t, st, w, sz)
    \/ \E err \in StatusValues : Decode(t, err)
    \/ Return(t)

Spec == Init /\ [][Next]_vars

\* two callers sharing the handle
NextShared ==
  \E t \in Threads :
    \/ \E o \in Ops, s \in Streams \cup {NoStream} : Call(t, o, s)
    \/ \E st \in SharedStatuses : SetStream(t, st)
    \/ \E st \in SharedStatuses, w \in BufVals, sz \in Sizes : Native(t, st, w, sz)
    \/ \E err \in SharedStatuses : Decode(t, err)
    \/ Return(t)

SpecShared == Init /\ [][NextShared]_vars

----------------------------------------------------------------------------
(* Properties *)

InCall(t) == pc[t] \in {"bind", "native", "done"} /\ op[t] \in Ops

\* C1: for every non-success status s (named by the switch or not), the
\* CUSPARSE_TRY / CUSPARSE_CHECK that received s threw a raft::cusparse_error
\* carrying the text of the call, the value of s and the label of s, and
\* control did not go on past it: the wrapper is over, returned nothing, and a
\* failed stream bind was not followed by the native call.
C1_CheckRaisesOnFailure ==
  \A t \in Threads :
    (chk[t].n > 0 /\ chk[t].status # CUSPARSE_STATUS_SUCCESS) =>
      /\ exc[t].raised
      /\ exc[t].call = chk[t].call
      /\ exc[t].code = chk[t].status
      /\ exc[t].label = cusparse_error_to_string(build, chk[t].status)
      /\ pc[t] = "done"
      /\ ret[t] = NoRet
      /\ (chk[t].call = SetStreamText => issued[t].n = 0)

\* a check that received a status the switch does not name (and a negative one)
\* has thrown, and the label in the message is the unknown label
C1_Witness ==
  \E t \in Threads :
    /\ chk[t].n > 0
    /\ chk[t].status < CUSPARSE_STATUS_SUCCESS
    /\ exc[t].raised
    /\ exc[t].label = "CUSPARSE_STATUS_UNKNOWN"

\* the wrappers C2 and C3 speak of besides cusparsegemmi
StreamWrappers ==
  {"gthr_double", "gthr_float", "coo2csr", "coosort_bufferSizeExt",
   "coosortByRow"}
GthrWrappers == {"gthr_double", "gthr_float"}
CheckedWrappers == {"coo2csr", "coosort_bufferSizeExt", "coosortByRow"}
GemmiWrappers == {"gemmi_float", "gemmi_double"}

\* C2 as stated: whenever a wrapper (cusparsegemmi included) has invoked its
\* native routine, the same call has before that bound the handle to the
\* stream the call was given.
C2_BindPrecedesNative ==
  \A t \in Threads :
    (InCall(t) /\ issued[t].n > 0) =>
      /\ bound[t].n > 0
      /\ bound[t].status = CUSPARSE_STATUS_SUCCESS
      /\ stream[t] \in Streams
      /\ bound[t].on = stream[t]

\* C2, amended: whenever cusparsegthr, cusparsecoo2csr,
\* cusparsecoosort_bufferSizeExt or cusparsecoosortByRow has invoked its native
\* routine, the same call has before that called cusparseSetStream once, with
\* the stream the call was given, and got CUSPARSE_STATUS_SUCCESS; cusparsegemmi
\* is given no stream and invokes its native routine without any bind.
C2_BindPrecedesNativeInStreamWrappers ==
  \A t \in Threads :
    (InCall(t) /\ issued[t].n > 0) =>
      /\ op[t] \in StreamWrappers =>
           /\ bound[t].n = 1
           /\ bound[t].status = CUSPARSE_STATUS_SUCCESS
           /\ stream[t] \in Streams
           /\ bound[t].on = stream[t]
      /\ op[t] \in GemmiWrappers =>
           /\ bound[t] = NoCall
           /\ stream[t] = NoStream

\* cusparsecoosortByRow, called with stream s2, has bound the handle to s2 and
\* then issued its native routine
C2_Witness ==
  \E t \in Threads :
    /\ op[t] = "coosortByRow"
    /\ stream[t] = "s2"
    /\ bound[t].on = "s2"
    /\ issued[t].n = 1
    /\ issued[t].on = "s2"

\* C3 as stated: in every wrapper other than cusparsegemmi a non-success
\* status of the native routine ends in a throw and not in a return; a status
\* cusparsegthr returns is CUSPARSE_STATUS_SUCCESS.
C3_NativeStatusChecked ==
  \A t \in Threads :
    (InCall(t) /\ op[t] \in StreamWrappers /\ issued[t].n > 0) =>
      /\ (issued[t].status # CUSPARSE_STATUS_SUCCESS =>
            exc[t].raised /\ ret[t] = NoRet)
      /\ (ret[t].kind = "status" => ret[t].val = CUSPARSE_STATUS_SUCCESS)

\* C3, amended: in cusparsecoo2csr, cusparsecoosort_bufferSizeExt and
\* cusparsecoosortByRow the status of the native routine goes through
\* CUSPARSE_CHECK: a non-success status ends in a throw naming the native call
\* and nothing is returned, CUSPARSE_STATUS_SUCCESS ends in a normal return.
\* cusparsegthr checks the status of its stream bind only: it throws nothing
\* after its native call and returns that call's status, whatever it is.
C3_NativeStatusCheckedExceptGthr ==
  \A t \in Threads :
    (InCall(t) /\ issued[t].n > 0) =>
      /\ op[t] \in CheckedWrappers =>
           IF issued[t].status # CUSPARSE_STATUS_SUCCESS
             THEN /\ exc[t].raised
                  /\ exc[t].call = NativeText(op[t])
                  /\ exc[t].code = issued[t].status
                  /\ ret[t] = NoRet
             ELSE /\ ~exc[t].raised
                  /\ ret[t].kind \in {"void", "size"}
      /\ op[t] \in GthrWrappers =>
           /\ ~exc[t].raised
           /\ chk[t].n = 1
           /\ chk[t].call = SetStreamText
           /\ ret[t].kind = "status"
           /\ ret[t].val = issued[t].status

\* cusparsegthr has returned a non-success status of its native routine
C3_Witness ==
  \E t \in Threads :
    /\ op[t] = "gthr_float"
    /\ pc[t] = "done"
    /\ issued[t].status = CUSPARSE_STATUS_EXECUTION_FAILED
    /\ ret[t].kind = "status"
    /\ ret[t].val = CUSPARSE_STATUS_EXECUTION_FAILED

\* C4: when the callers serialize their calls, every native routine of a
\* wrapper that was given a stream is issued while the shared handle is bound
\* to that stream.
C4_SerializedNoMisrouting ==
  serialized =>
    \A t \in Threads :
      (InCall(t) /\ BindsStream(op[t]) /\ issued[t].n > 0) =>
        issued[t].on = stream[t]

\* the same without the hypothesis: it fails when the calls interleave
C4_NoMisroutingAtAll ==
  \A t \in Threads :
    (InCall(t) /\ BindsStream(op[t]) /\ issued[t].n > 0) =>
      issued[t].on = stream[t]

\* two serialized calls on different streams, made through the one handle,
\* have both issued their native routine
C4_Witness ==
  /\ serialized
  /\ \E t, u \in Threads :
       /\ t # u
       /\ BindsStream(op[t]) /\ BindsStream(op[u])
       /\ stream[t] = "s1" /\ stream[u] = "s2"
       /\ issued[t].n > 0 /\ issued[u].n > 0
       /\ issued[t].on = "s1" /\ issued[u].on = "s2"

\* the labels C5 names
C5_CanonicalName(s) ==
  CASE s = CUSPARSE_STATUS_SUCCESS -> "CUSPARSE_STATUS_SUCCESS"
    [] s = CUSPARSE_STATUS_NOT_INITIALIZED -> "CUSPARSE_STATUS_NOT_INITIALIZED"
    [] s = CUSPARSE_STATUS_ALLOC_FAILED -> "CUSPARSE_STATUS_ALLOC_FAILED"
    [] s = CUSPARSE_STATUS_INVALID_VALUE -> "CUSPARSE_STATUS_INVALID_VALUE"
    [] s = CUSPARSE_STATUS_ARCH_MISMATCH -> "CUSPARSE_STATUS_ARCH_MISMATCH"
    [] s = CUSPARSE_STATUS_EXECUTION_FAILED -> "CUSPARSE_STATUS_EXECUTION_FAILED"
    [] s = CUSPARSE_STATUS_INTERNAL_ERROR -> "CUSPARSE_STATUS_INTERNAL_ERROR"
    [] s = CUSPARSE_STATUS_MATRIX_TYPE_NOT_SUPPORTED ->
         "CUSPARSE_STATUS_MATRIX_TYPE_NOT_SUPPORTED"
    [] OTHER -> "CUSPARSE_STATUS_UNKNOWN"

\* C5: in every build configuration cusparse_error_to_string yields, for every
\* status value, the name of the variant or the unknown label.
C5_DecodeTotalInEveryBuild ==
  \A s \in StatusValues :
    cusparse_error_to_string(build, s) = C5_CanonicalName(s)

\* C6: a step in which a CUSPARSE_TRY received CUSPARSE_STATUS_SUCCESS throws
\* nothing, evaluates the wrapped call once, and changes nothing but what the
\* wrapped call did and the position of the wrapper: after the stream bind the
\* wrapper goes on to its native call with buffers and result untouched, after
\* the native call the wrapper returns normally.
C6_CheckSuccessNoEffect ==
  [][\A t \in Threads :
       (chk'[t].n = chk[t].n + 1 /\ chk'[t].status = CUSPARSE_STATUS_SUCCESS) =>
         /\ exc' = exc
         /\ exc'[t] = NoExc
         /\ op' = op
         /\ stream' = stream
         /\ IF chk'[t].call = SetStreamText
              THEN /\ bound'[t].n = bound[t].n + 1
                   /\ issued' = issued
                   /\ buf' = buf
                   /\ ret' = ret
                   /\ pc'[t] = "native"
              ELSE /\ issued'[t].n = issued[t].n + 1
                   /\ bound' = bound
                   /\ handleStream' = handleStream
                   /\ pc'[t] = "done"
                   /\ ret'[t].kind \in {"void", "size"}]_vars

\* cusparsecoo2csr has run both of its checks on CUSPARSE_STATUS_SUCCESS and
\* returned
C6_Witness ==
  \E t \in Threads :
    /\ op[t] = "coo2csr"
    /\ chk[t].n = 2
    /\ chk[t].status = CUSPARSE_STATUS_SUCCESS
    /\ pc[t] = "done"
    /\ ret[t].kind = "void"

\* C7: cusparsegemmi throws nothing and runs no check: whatever status its
\* native routine returned is the value it returns.
C7_GemmiReturnsRawStatus ==
  \A t \in Threads :
    (op[t] \in {"gemmi_float", "gemmi_double"} /\ issued[t].n > 0) =>
      /\ pc[t] = "done"
      /\ ~exc[t].raised
      /\ chk[t].n = 0
      /\ ret[t].kind = "status"
      /\ ret[t].val = issued[t].status

\* cusparsegemmi has returned a non-success status to its caller
C7_Witness ==
  \E t \in Threads :
    /\ op[t] = "gemmi_double"
    /\ pc[t] = "done"
    /\ issued[t].status = CUSPARSE_STATUS_INTERNAL_ERROR
    /\ ret[t].val = CUSPARSE_STATUS_INTERNAL_ERROR

\* C10: in the wrappers that bind a stream, a non-success status of the bind
\* ends the call with a throw at once: the native routine is not invoked, the
\* caller's buffers are as passed in, nothing (no byte count) is returned; and
\* in no call is the bind or the native routine evaluated more than once.
C10_BindFailureStopsCall ==
  \A t \in Threads :
    /\ bound[t].n <= 1
    /\ issued[t].n <= 1
    /\ (bound[t].n > 0 /\ bound[t].status # CUSPARSE_STATUS_SUCCESS) =>
         /\ pc[t] = "done"
         /\ exc[t].raised
         /\ exc[t].call = SetStreamText
         /\ exc[t].code = bound[t].status
         /\ issued[t] = NoCall
         /\ buf[t] = 0
         /\ ret[t] = NoRet

\* cusparsecoosort_bufferSizeExt has been thrown out of by its stream bind
C10_Witness ==
  \E t \in Threads :
    /\ op[t] = "coosort_bufferSizeExt"
    /\ bound[t].n = 1
    /\ bound[t].status = CUSPARSE_STATUS_NOT_INITIALIZED
    /\ exc[t].raised
    /\ issued[t].n = 0

====
